---- MODULE Spec2Model ----
(***************************************************************************)
(* Model of the AI Audit Toolkit (src/audit_toolkit.py, src/app.py):       *)
(* the Opportunity dataclass and its __post_init__ classification, the     *)
(* ROI calculator (calculate_roi, calculate_audit_roi) and the project     *)
(* operations that build the opportunity list.                             *)
(*                                                                         *)
(* Numbers.  Python floats are modelled as exact rationals <<n, d>> in     *)
(* lowest terms with d > 0.  float('inf') is <<1, 0>>.  A division whose    *)
(* divisor is zero (ZeroDivisionError in Python) yields ZeroDiv = <<0, 0>>, *)
(* which every later operation propagates.  Binary rounding error of the   *)
(* float operations themselves is not modelled.                            *)
(***************************************************************************)
EXTENDS Integers, Sequences, FiniteSets, TLC

VARIABLES
    roi_args,        \* arguments of the calculate_roi call being made
    roi_locals,      \* <<>>, or <<the unrounded local variables of the call>>
    roi_returned,    \* <<>> before the call returns, <<dict>> afterwards
    roi_raised,      \* exception raised by the call, "none" if it returned
    opp,             \* <<>>, or <<the Opportunity instance under study>>
    opp_args,        \* <<>>, or <<the constructor arguments opp was built with>>
    opp_record,      \* <<>>, or <<the stored JSON record of an Opportunity>>
    opportunities,   \* project.opportunities: the list of Opportunity instances
    audit_args,      \* <<>>, or <<avg_salary and implementation_cost passed
                     \* to calculate_audit_roi>>
    roi_data,        \* <<>>, or <<the dict calculate_audit_roi returned>>
    calls,           \* per caller: the function it calls and its arguments
    pc,              \* per caller: the statement its call executes next
    frames,          \* per frame: the local variables of the call running in it
    results,         \* per caller: <<>>, or <<the value its call returned>>
    project,         \* <<>>, or <<the AuditProject instance>>
    report,          \* <<>>, or <<the phases of the executive report>>
    file,            \* <<>>, or <<the JSON document save_project wrote>>
    loaded,          \* <<>>, or <<the AuditProject load_project returned>>
    session,         \* <<>>, or <<st.session_state.opportunities>> of the web app
    script,          \* the position of the web app's script run
    event,           \* the widget values of the current script run
    flags,           \* the command-line flags main was started with
    main_pc,         \* the position of main
    trace,           \* the operations main has executed, in order
    output_dir       \* whether the output directory exists

roiVars == <<roi_args, roi_locals, roi_returned, roi_raised>>

oppVars == <<opp, opp_args, opp_record>>

projVars == <<opportunities, audit_args, roi_data>>

concVars == <<calls, pc, frames, results>>

reportVars == <<project, report>>

storeVars == <<file, loaded>>

appVars == <<session, script, event>>

cliVars == <<flags, main_pc, trace, output_dir>>

vars == <<roi_args, roi_locals, roi_returned, roi_raised,
          opp, opp_args, opp_record,
          opportunities, audit_args, roi_data,
          calls, pc, frames, results,
          project, report,
          file, loaded,
          session, script, event,
          flags, main_pc, trace, output_dir>>

notRoiVars ==
    <<oppVars, projVars, concVars, reportVars, storeVars, appVars, cliVars>>
notOppVars ==
    <<roiVars, projVars, concVars, reportVars, storeVars, appVars, cliVars>>
notProjVars ==
    <<roiVars, oppVars, concVars, reportVars, storeVars, appVars, cliVars>>
notConcVars ==
    <<roiVars, oppVars, projVars, reportVars, storeVars, appVars, cliVars>>
notReportVars ==
    <<roiVars, oppVars, projVars, concVars, storeVars, appVars, cliVars>>
notStoreVars == <<roiVars, oppVars, concVars, report, appVars, cliVars>>
notAppVars == <<roiVars, oppVars, concVars, reportVars, storeVars, cliVars>>
notCliVars ==
    <<roiVars, oppVars, projVars, concVars, reportVars, storeVars, appVars>>

-----------------------------------------------------------------------------
(* Exact rational arithmetic standing for Python float arithmetic.          *)

Abs(x) == IF x < 0 THEN -x ELSE x

RECURSIVE GCD(_, _)
GCD(a, b) == IF b = 0 THEN a ELSE GCD(b, a % b)

Inf == <<1, 0>>
ZeroDiv == <<0, 0>>

IsFinite(x) == x[2] # 0

\* the rational n/d (d # 0) in lowest terms with a positive denominator
Rat(n, d) ==
    LET g == GCD(Abs(n), Abs(d))
        s == IF d < 0 THEN -1 ELSE 1
    IN  <<(s * n) \div g, (s * d) \div g>>

Num(k) == <<k, 1>>

Mul(x, y) ==
    IF x = ZeroDiv \/ y = ZeroDiv THEN ZeroDiv
    ELSE IF ~IsFinite(x) \/ ~IsFinite(y) THEN Inf
    ELSE Rat(x[1] * y[1], x[2] * y[2])

Add(x, y) ==
    IF x = ZeroDiv \/ y = ZeroDiv THEN ZeroDiv
    ELSE IF ~IsFinite(x) \/ ~IsFinite(y) THEN Inf
    ELSE Rat(x[1] * y[2] + y[1] * x[2], x[2] * y[2])

Sub(x, y) ==
    IF x = ZeroDiv \/ y = ZeroDiv THEN ZeroDiv
    ELSE IF ~IsFinite(x) \/ ~IsFinite(y) THEN Inf
    ELSE Rat(x[1] * y[2] - y[1] * x[2], x[2] * y[2])

\* Python true division: a zero divisor raises ZeroDivisionError
Div(x, y) ==
    IF x = ZeroDiv \/ y = ZeroDiv THEN ZeroDiv
    ELSE IF y[1] = 0 /\ IsFinite(y) THEN ZeroDiv
    ELSE IF ~IsFinite(x) \/ ~IsFinite(y) THEN Inf
    ELSE Rat(x[1] * y[2], x[2] * y[1])

\* x > 0 on floats (inf > 0 is true)
Positive(x) == x # ZeroDiv /\ x[1] > 0

Negative(x) == x # ZeroDiv /\ x[1] < 0

\* x <= y on finite rationals
Leq(x, y) == x[1] * y[2] <= y[1] * x[2]

Pow10(k) == IF k = 0 THEN 1 ELSE IF k = 1 THEN 10 ELSE 100

\* Python round(x, ndigits): nearest multiple of 10^-ndigits, ties to the
\* even one; round(inf, ndigits) is inf
Round(x, ndigits) ==
    IF ~IsFinite(x) THEN x
    ELSE LET scaled == x[1] * Pow10(ndigits)
             q == scaled \div x[2]
             r == scaled % x[2]
             up == \/ 2 * r > x[2]
                   \/ 2 * r = x[2] /\ q % 2 = 1
         IN  Rat(IF up THEN q + 1 ELSE q, Pow10(ndigits))

-----------------------------------------------------------------------------
(* ROI calculator: calculate_roi                                            *)

HoursPerYear == 2080
WeeksPerYear == 52
MonthsPerYear == 12

\* mutant: the default efficiency is 1 (no realism discount)
DefaultEfficiency_full == Num(1)

\* automation_efficiency: float = 0.7
DefaultEfficiency == Rat(7, 10)

\* mutant: the hourly rate is rounded to cents before it is used
HourlyRate_rounded(avg_annual_salary) ==
    Round(Div(avg_annual_salary, Num(HoursPerYear)), 2)

\* hourly_rate = avg_annual_salary / 2080
HourlyRate(avg_annual_salary) == Div(avg_annual_salary, Num(HoursPerYear))

\* actual_hours_saved = hours_saved_weekly * employees_affected * automation_efficiency
ActualHoursSaved(hours_saved_weekly, employees_affected, automation_efficiency) ==
    Mul(Mul(hours_saved_weekly, employees_affected), automation_efficiency)

\* mutant: the redirected hours are valued at the hourly rate itself
AnnualRevenuePotential_sameRate(actual_hours_saved, hourly_rate) ==
    Mul(Mul(Mul(actual_hours_saved, Rat(1, 2)), hourly_rate),
        Num(WeeksPerYear))

\* annual_revenue_potential from the adjusted hours: half of the hours,
\* valued at twice the hourly rate, 52 weeks
AnnualRevenuePotential(actual_hours_saved, hourly_rate) ==
    LET revenue_hours_weekly == Mul(actual_hours_saved, Rat(1, 2))
        weekly_revenue_potential ==
            Mul(Mul(revenue_hours_weekly, hourly_rate), Num(2))
    IN  Mul(weekly_revenue_potential, Num(WeeksPerYear))

\* mutant: the division by implementation_cost is not guarded
RoiPercentage_unguarded(annual_savings, implementation_cost) ==
    Mul(Div(Sub(annual_savings, implementation_cost), implementation_cost),
        Num(100))

\* roi_percentage = (...) if implementation_cost > 0 else 0
RoiPercentage(annual_savings, implementation_cost) ==
    IF Positive(implementation_cost)
    THEN Mul(Div(Sub(annual_savings, implementation_cost),
                 implementation_cost), Num(100))
    ELSE Num(0)

\* mutant: the division by annual_savings / 12 is not guarded
PaybackMonths_unguarded(annual_savings, implementation_cost) ==
    Div(implementation_cost, Div(annual_savings, Num(MonthsPerYear)))

\* mutant: the payback period is counted in weeks
PaybackMonths_weeks(annual_savings, implementation_cost) ==
    IF Positive(annual_savings)
    THEN Div(implementation_cost, Div(annual_savings, Num(WeeksPerYear)))
    ELSE Inf

\* payback_months = (...) if annual_savings > 0 else float('inf')
PaybackMonths(annual_savings, implementation_cost) ==
    IF Positive(annual_savings)
    THEN Div(implementation_cost, Div(annual_savings, Num(MonthsPerYear)))
    ELSE Inf

\* the local variables of calculate_roi before rounding
RoiLocals(hours_saved_weekly, employees_affected, avg_annual_salary, implementation_cost, automation_efficiency) ==
    LET hourly_rate == HourlyRate(avg_annual_salary)
        actual_hours_saved ==
            ActualHoursSaved(hours_saved_weekly, employees_affected,
                             automation_efficiency)
        weekly_savings == Mul(actual_hours_saved, hourly_rate)
        annual_savings == Mul(weekly_savings, Num(WeeksPerYear))
        annual_revenue_potential ==
            AnnualRevenuePotential(actual_hours_saved, hourly_rate)
        total_annual_value == Add(annual_savings, annual_revenue_potential)
    IN  [hourly_rate |-> hourly_rate,
         hours_saved_weekly |-> actual_hours_saved,
         weekly_savings |-> weekly_savings,
         annual_savings |-> annual_savings,
         annual_revenue_potential |-> annual_revenue_potential,
         total_annual_value |-> total_annual_value,
         roi_percentage |-> RoiPercentage(annual_savings, implementation_cost),
         payback_months |-> PaybackMonths(annual_savings, implementation_cost),
         implementation_cost |-> implementation_cost]

\* the return statement of calculate_roi: the dict built from the locals l
RoiReturn(l) ==
    [hourly_rate |-> Round(l.hourly_rate, 2),
     hours_saved_weekly |-> Round(l.hours_saved_weekly, 1),
     weekly_savings |-> Round(l.weekly_savings, 2),
     annual_savings |-> Round(l.annual_savings, 2),
     annual_revenue_potential |-> Round(l.annual_revenue_potential, 2),
     total_annual_value |-> Round(l.total_annual_value, 2),
     roi_percentage |-> Round(l.roi_percentage, 1),
     payback_months |-> Round(l.payback_months, 1),
     implementation_cost |-> l.implementation_cost]

\* the dict calculate_roi returns
calculate_roi(hours_saved_weekly, employees_affected, avg_annual_salary, implementation_cost, automation_efficiency) ==
    RoiReturn(RoiLocals(hours_saved_weekly, employees_affected,
                        avg_annual_salary, implementation_cost,
                        automation_efficiency))

RoiKeys == {"hourly_rate", "hours_saved_weekly", "weekly_savings",
            "annual_savings", "annual_revenue_potential",
            "total_annual_value", "roi_percentage", "payback_months",
            "implementation_cost"}

\* the exception a call of calculate_roi ends with, "none" if it returns
RoiException(d) ==
    IF \E k \in RoiKeys : d[k] = ZeroDiv THEN "ZeroDivisionError" ELSE "none"

-----------------------------------------------------------------------------
(* Calls of calculate_roi on inputs drawn from bounded sets                 *)

HoursInputs == {Num(-4), Num(0), Rat(5, 2), Num(10)}
EmployeesInputs == {Num(-2), Num(0), Num(1), Num(3)}
SalaryInputs == {Num(-52000), Num(0), Num(62000), Num(65000)}
CostInputs == {Num(-5000), Num(0), Num(15000), Num(25000)}
EfficiencyInputs == {Num(0), Rat(1, 2), Num(1)}

\* automation_efficiency is optional: a call either supplies it or not
RoiArgs ==
    [hours_saved_weekly : HoursInputs,
     employees_affected : EmployeesInputs,
     avg_annual_salary : SalaryInputs,
     implementation_cost : CostInputs,
     efficiency_given : {FALSE},
     automation_efficiency : {Num(0)}]
    \cup
    [hours_saved_weekly : HoursInputs,
     employees_affected : EmployeesInputs,
     avg_annual_salary : SalaryInputs,
     implementation_cost : CostInputs,
     efficiency_given : {TRUE},
     automation_efficiency : EfficiencyInputs]

\* the scenario call calculate_roi(10, 3, 62000, 25000)
ScenarioArgs ==
    [hours_saved_weekly |-> Num(10),
     employees_affected |-> Num(3),
     avg_annual_salary |-> Num(62000),
     implementation_cost |-> Num(25000),
     efficiency_given |-> FALSE,
     automation_efficiency |-> Num(0)]

\* the value the parameter automation_efficiency is bound to
BoundEfficiency(args) ==
    IF args.efficiency_given THEN args.automation_efficiency
    ELSE DefaultEfficiency

InitRoi ==
    /\ roi_args \in RoiArgs
    /\ roi_locals = <<>>
    /\ roi_returned = <<>>
    /\ roi_raised = "none"
    /\ opp = <<>>
    /\ opp_args = <<>>
    /\ opp_record = <<>>
    /\ opportunities = <<>>
    /\ audit_args = <<>>
    /\ roi_data = <<>>
    /\ calls = <<>>
    /\ pc = <<>>
    /\ frames = <<>>
    /\ results = <<>>
    /\ project = <<>>
    /\ report = <<>>
    /\ file = <<>>
    /\ loaded = <<>>
    /\ session = <<>>
    /\ script = "idle"
    /\ event = <<>>
    /\ flags = <<>>
    /\ main_pc = "start"
    /\ trace = <<>>
    /\ output_dir = "missing"

\* one call calculate_roi(**roi_args)
CallCalculateRoi ==
    /\ roi_locals = <<>>
    /\ roi_raised = "none"
    /\ LET l == RoiLocals(roi_args.hours_saved_weekly,
                          roi_args.employees_affected,
                          roi_args.avg_annual_salary,
                          roi_args.implementation_cost,
                          BoundEfficiency(roi_args))
           d == calculate_roi(roi_args.hours_saved_weekly,
                              roi_args.employees_affected,
                              roi_args.avg_annual_salary,
                              roi_args.implementation_cost,
                              BoundEfficiency(roi_args))
       IN  /\ roi_locals' = <<l>>
           /\ IF RoiException(d) = "none"
              THEN /\ roi_returned' = <<d>>
                   /\ roi_raised' = "none"
              ELSE /\ roi_returned' = <<>>
                   /\ roi_raised' = RoiException(d)
    /\ UNCHANGED roi_args
    /\ UNCHANGED notRoiVars

NextRoi == CallCalculateRoi

SpecRoi == InitRoi /\ [][NextRoi]_vars

-----------------------------------------------------------------------------
(* Domain model: the Opportunity dataclass                                  *)

Levels == {"low", "medium", "high"}
Categories == {"quick_win", "big_swing", "nice_to_have", "deprioritize"}

\* mutant: a low-effort, medium-impact opportunity is taken for a quick win
AutoCategory_mediumQuickWin(effort, impact) ==
    IF effort = "low" /\ (impact = "high" \/ impact = "medium") THEN "quick_win"
    ELSE IF effort = "high" /\ impact = "high" THEN "big_swing"
    ELSE IF effort = "low" /\ impact = "low" THEN "nice_to_have"
    ELSE "deprioritize"

\* the if / elif / else chain of __post_init__
AutoCategory(effort, impact) ==
    IF effort = "low" /\ impact = "high" THEN "quick_win"
    ELSE IF effort = "high" /\ impact = "high" THEN "big_swing"
    ELSE IF effort = "low" /\ impact = "low" THEN "nice_to_have"
    ELSE "deprioritize"

\* mutant: __post_init__ classifies whatever category was passed
PostInit_always(o) ==
    [o EXCEPT !.category = AutoCategory(o.effort, o.impact)]

\* Opportunity.__post_init__: classify only "if not self.category"
PostInit(o) ==
    IF o.category = ""
    THEN [o EXCEPT !.category = AutoCategory(o.effort, o.impact)]
    ELSE o

\* Opportunity(**args): the generated __init__ stores the arguments, then
\* __post_init__ runs
NewOpportunity(args) ==
    PostInit([hours_saved_weekly |-> args.hours_saved_weekly,
              employees_affected |-> args.employees_affected,
              effort |-> args.effort,
              impact |-> args.impact,
              category |-> args.category])

\* mutant: category is a property recomputed from the current effort/impact
AssignField_reclassify(o, field, value) ==
    LET n == [o EXCEPT ![field] = value]
    IN  [n EXCEPT !.category = AutoCategory(n.effort, n.impact)]

\* o.field = value on the (non-frozen) dataclass instance
AssignField(o, field, value) == [o EXCEPT ![field] = value]

\* dataclasses.asdict(o): the fields of the instance as a dict
AsDict(o) ==
    [hours_saved_weekly |-> o.hours_saved_weekly,
     employees_affected |-> o.employees_affected,
     effort |-> o.effort,
     impact |-> o.impact,
     category |-> o.category]

\* input(...).strip().lower() on the answers the model enumerates
StripLower(raw) ==
    CASE raw = "HIGH" -> "high"
      [] raw = " low " -> "low"
      [] OTHER -> raw

\* x or default
OrDefault(x, default) == IF x = "" THEN default ELSE x

-----------------------------------------------------------------------------
(* Life of one Opportunity instance: construction, field assignment, and    *)
(* the per-record steps of save_project / load_project                      *)

EffortInputs == Levels \cup {"urgent"}
ImpactInputs == Levels \cup {"critical"}
CategoryInputs == {"quick_win", "big_swing"}
RawAnswers == {"", " low ", "HIGH", "urgent"}

InitOpp ==
    /\ opp = <<>>
    /\ opp_args = <<>>
    /\ opp_record = <<>>
    /\ roi_args = ScenarioArgs
    /\ roi_locals = <<>>
    /\ roi_returned = <<>>
    /\ roi_raised = "none"
    /\ opportunities = <<>>
    /\ audit_args = <<>>
    /\ roi_data = <<>>
    /\ calls = <<>>
    /\ pc = <<>>
    /\ frames = <<>>
    /\ results = <<>>
    /\ project = <<>>
    /\ report = <<>>
    /\ file = <<>>
    /\ loaded = <<>>
    /\ session = <<>>
    /\ script = "idle"
    /\ event = <<>>
    /\ flags = <<>>
    /\ main_pc = "start"
    /\ trace = <<>>
    /\ output_dir = "missing"

\* a constructor call: the new instance replaces the one under study
Construct(args) ==
    /\ opp' = <<NewOpportunity(args)>>
    /\ opp_args' = <<args>>

\* Opportunity(name, description, hours, employees, effort, impact): the form
\* main's example mode and the web app use (no category argument)
ConstructDefaultCategory ==
    /\ \E effort \in EffortInputs, impact \in ImpactInputs :
           Construct([hours_saved_weekly |-> Num(5),
                      employees_affected |-> 1,
                      effort |-> effort,
                      impact |-> impact,
                      category |-> ""])
    /\ UNCHANGED opp_record
    /\ UNCHANGED notOppVars

\* a constructor call that passes category explicitly
ConstructWithCategory ==
    /\ \E effort \in Levels, impact \in Levels,
          category \in CategoryInputs :
           Construct([hours_saved_weekly |-> Num(5),
                      employees_affected |-> 1,
                      effort |-> effort,
                      impact |-> impact,
                      category |-> category])
    /\ UNCHANGED opp_record
    /\ UNCHANGED notOppVars

\* interactive_add_opportunity with empty answers for hours and employees
interactive_add_opportunity ==
    /\ \E effort_answer \in RawAnswers, impact_answer \in RawAnswers :
           Construct([hours_saved_weekly |-> Num(5),
                      employees_affected |-> 1,
                      effort |-> OrDefault(StripLower(effort_answer), "medium"),
                      impact |-> OrDefault(StripLower(impact_answer), "medium"),
                      category |-> ""])
    /\ UNCHANGED opp_record
    /\ UNCHANGED notOppVars

\* opp.effort = v
SetEffort ==
    /\ opp # <<>>
    /\ \E v \in Levels : opp' = <<AssignField(opp[1], "effort", v)>>
    /\ UNCHANGED <<opp_args, opp_record>>
    /\ UNCHANGED notOppVars

\* opp.impact = v
SetImpact ==
    /\ opp # <<>>
    /\ \E v \in Levels : opp' = <<AssignField(opp[1], "impact", v)>>
    /\ UNCHANGED <<opp_args, opp_record>>
    /\ UNCHANGED notOppVars

\* save_project: json.dump(asdict(project)) writes the record of opp
SaveOpportunity ==
    /\ opp # <<>>
    /\ opp_record' = <<AsDict(opp[1])>>
    /\ UNCHANGED <<opp, opp_args>>
    /\ UNCHANGED notOppVars

\* load_project: Opportunity(**o) on the stored record
LoadOpportunity ==
    /\ opp_record # <<>>
    /\ Construct(opp_record[1])
    /\ UNCHANGED opp_record
    /\ UNCHANGED notOppVars

NextOpp ==
    \/ ConstructDefaultCategory
    \/ ConstructWithCategory
    \/ interactive_add_opportunity
    \/ SetEffort
    \/ SetImpact
    \/ SaveOpportunity
    \/ LoadOpportunity

SpecOpp == InitOpp /\ [][NextOpp]_vars

-----------------------------------------------------------------------------
(* Properties of Opportunity construction, checked under SpecOpp            *)

\* the classification table of the specification, cell by cell
SpecTable(effort, impact) ==
    CASE effort = "low"    /\ impact = "high"   -> "quick_win"
      [] effort = "low"    /\ impact = "medium" -> "deprioritize"
      [] effort = "low"    /\ impact = "low"    -> "nice_to_have"
      [] effort = "medium" /\ impact = "high"   -> "deprioritize"
      [] effort = "medium" /\ impact = "medium" -> "deprioritize"
      [] effort = "medium" /\ impact = "low"    -> "deprioritize"
      [] effort = "high"   /\ impact = "high"   -> "big_swing"
      [] effort = "high"   /\ impact = "medium" -> "deprioritize"
      [] effort = "high"   /\ impact = "low"    -> "deprioritize"

InDomain(args) == args.effort \in Levels /\ args.impact \in Levels

\* C1: an Opportunity constructed without a category from one of the nine
\* (effort, impact) pairs over {low, medium, high} has the category of the
\* table.
C1_ClassificationTable ==
    (opp # <<>> /\ InDomain(opp_args[1]) /\ opp_args[1].category = "") =>
        opp[1].category = SpecTable(opp_args[1].effort, opp_args[1].impact)

C1_Witness ==
    /\ opp # <<>>
    /\ opp_args[1].category = ""
    /\ opp_args[1].effort = "low"
    /\ opp_args[1].impact = "medium"
    /\ opp[1].category = "deprioritize"

\* C2 (as claimed): however an Opportunity was constructed, its category is
\* classify(effort, impact) of the values it was constructed with.
C2_CategoryAlwaysDerived ==
    (opp # <<>> /\ InDomain(opp_args[1])) =>
        opp[1].category = SpecTable(opp_args[1].effort, opp_args[1].impact)

\* C2 (amended): the category is classify(effort, impact) of the constructor
\* arguments when the category argument is empty or omitted; a non-empty
\* category argument (as load_project passes from the stored record) is kept
\* as given.
C2_CategoryDerivedUnlessGiven ==
    (opp # <<>> /\ InDomain(opp_args[1])) =>
        opp[1].category =
            IF opp_args[1].category = ""
            THEN SpecTable(opp_args[1].effort, opp_args[1].impact)
            ELSE opp_args[1].category

C2_Witness ==
    /\ opp # <<>>
    /\ opp_record # <<>>
    /\ opp_args[1] = opp_record[1]
    /\ InDomain(opp_args[1])
    /\ opp[1].category = "nice_to_have"
    /\ SpecTable(opp_args[1].effort, opp_args[1].impact) = "big_swing"

\* C3: a step that is not a constructor call (the constructor arguments on
\* record stay the same) leaves the category of the instance as it was:
\* assignments to effort or impact and saving never recompute it.
C3_CategoryFrozen ==
    [][(opp # <<>> /\ opp_args' = opp_args) =>
           opp'[1].category = opp[1].category]_vars

C3_Witness ==
    /\ opp # <<>>
    /\ opp_args[1].category = ""
    /\ opp_args[1].effort = "low" /\ opp_args[1].impact = "high"
    /\ opp[1].effort = "high" /\ opp[1].impact = "low"
    /\ opp[1].category = "quick_win"

\* C4 (as claimed): no Opportunity exists that was constructed from an effort
\* or impact outside {low, medium, high}; such a construction fails.
C4_OutOfDomainRejected ==
    opp # <<>> => InDomain(opp_args[1])

-----------------------------------------------------------------------------
(* ROI calculator: calculate_audit_roi                                      *)

Max(a, b) == IF a >= b THEN a ELSE b

\* sum(o.hours_saved_weekly * o.employees_affected for o in opps)
RECURSIVE TotalHours(_)
TotalHours(opps) ==
    IF opps = <<>> THEN Num(0)
    ELSE Add(TotalHours(SubSeq(opps, 1, Len(opps) - 1)),
             Mul(opps[Len(opps)].hours_saved_weekly,
                 Num(opps[Len(opps)].employees_affected)))

\* sum(o.employees_affected for o in opps)
RECURSIVE TotalEmployees(_)
TotalEmployees(opps) ==
    IF opps = <<>> THEN 0
    ELSE TotalEmployees(SubSeq(opps, 1, Len(opps) - 1))
             + opps[Len(opps)].employees_affected

\* mutant: the plain mean of the per-person hours, not weighted by employees
RECURSIVE PlainHours(_)
PlainHours(opps) ==
    IF opps = <<>> THEN Num(0)
    ELSE Add(PlainHours(Tail(opps)), Head(opps).hours_saved_weekly)

PerPersonHours_unweighted(opps) ==
    Div(PlainHours(opps), Num(Max(Len(opps), 1)))

\* mutant: the denominator is not floored at 1
PerPersonHours_unfloored(opps) ==
    Div(TotalHours(opps), Num(TotalEmployees(opps)))

\* total_hours / max(total_employees, 1)
PerPersonHours(opps) ==
    Div(TotalHours(opps), Num(Max(TotalEmployees(opps), 1)))

\* mutant: every category is charged the full implementation cost
CategoryCostShare_full == Num(1)

\* the per-category share of the implementation cost
CategoryCostShare == Rat(1, 4)

\* the order in which calculate_audit_roi visits the categories
CategoryOrder == <<"quick_win", "big_swing", "nice_to_have", "deprioritize">>

\* [o for o in opps if o.category == cat]
CatOpps(opps, cat) == SelectSeq(opps, LAMBDA o : o.category = cat)

\* the calculate_roi call made for the opportunities of one category
CategoryRoi(cat_opps, avg_salary, implementation_cost) ==
    calculate_roi(PerPersonHours(cat_opps),
                  Num(TotalEmployees(cat_opps)),
                  avg_salary,
                  Mul(implementation_cost, CategoryCostShare),
                  DefaultEfficiency)

\* mutant: a key is written for every category, also for an empty one
RECURSIVE ByCategory_allKeys(_, _, _, _)
ByCategory_allKeys(opps, avg_salary, implementation_cost, k) ==
    IF k = 0 THEN <<>>
    ELSE Append(ByCategory_allKeys(opps, avg_salary, implementation_cost, k - 1),
                <<CategoryOrder[k],
                  CategoryRoi(CatOpps(opps, CategoryOrder[k]), avg_salary,
                              implementation_cost)>>)

\* the categories of opps in the order of their first occurrence
RECURSIVE DiscoveryOrder(_)
DiscoveryOrder(opps) ==
    IF opps = <<>> THEN <<>>
    ELSE LET before == DiscoveryOrder(SubSeq(opps, 1, Len(opps) - 1))
             cat == opps[Len(opps)].category
         IN  IF \E i \in 1..Len(before) : before[i] = cat
             THEN before
             ELSE Append(before, cat)

\* mutant: the keys are written in the order the categories are met in opps
ByCategory_discoveryOrder(opps, avg_salary, implementation_cost, k) ==
    [i \in 1..Len(DiscoveryOrder(opps)) |->
        <<DiscoveryOrder(opps)[i],
          CategoryRoi(CatOpps(opps, DiscoveryOrder(opps)[i]), avg_salary,
                      implementation_cost)>>]

\* the dict by_category after the first k categories of CategoryOrder, as the
\* sequence of its (key, value) items in insertion order
RECURSIVE ByCategory(_, _, _, _)
ByCategory(opps, avg_salary, implementation_cost, k) ==
    IF k = 0 THEN <<>>
    ELSE LET before == ByCategory(opps, avg_salary, implementation_cost, k - 1)
             cat == CategoryOrder[k]
             cat_opps == CatOpps(opps, cat)
         IN  IF cat_opps # <<>>
             THEN Append(before,
                         <<cat, CategoryRoi(cat_opps, avg_salary,
                                            implementation_cost)>>)
             ELSE before

\* mutant: the call leaves in the caller's list only the last group it built
ArgumentAfterCall_filtered(opps) == CatOpps(opps, "deprioritize")

\* the caller's list after calculate_audit_roi returns: the function only
\* iterates over it (generator expressions and list comprehensions)
ArgumentAfterCall(opps) == opps

\* the dict calculate_audit_roi returns
calculate_audit_roi(opps, avg_salary, implementation_cost) ==
    [combined |-> calculate_roi(PerPersonHours(opps),
                                Num(TotalEmployees(opps)),
                                avg_salary,
                                implementation_cost,
                                DefaultEfficiency),
     by_category |-> ByCategory(opps, avg_salary, implementation_cost,
                                Len(CategoryOrder))]

-----------------------------------------------------------------------------
(* One run over a project: the opportunity list is built, then              *)
(* calculate_audit_roi is called on it                                      *)

MaxOpps == 2

\* Opportunity(name, description, hours, employees, effort, impact)
Positional(hours, employees, effort, impact) ==
    NewOpportunity([hours_saved_weekly |-> Num(hours),
                    employees_affected |-> employees,
                    effort |-> effort,
                    impact |-> impact,
                    category |-> ""])

\* the seven opportunities of the example audit
ExampleOpportunities ==
    <<Positional(6, 3, "low", "high"),
      Positional(10, 3, "low", "high"),
      Positional(5, 5, "low", "high"),
      Positional(4, 8, "high", "high"),
      Positional(3, 8, "high", "high"),
      Positional(3, 4, "low", "low"),
      Positional(5, 2, "low", "low")>>

AddedHours == {Rat(5, 2), Num(6)}
AddedEmployees == {0, 3, 8}
AddedPairs == {<<"low", "high">>, <<"high", "high">>, <<"low", "low">>,
               <<"medium", "high">>}
AuditSalaries == {Num(62000), Num(65000)}
AuditCosts == {Num(0), Num(15000), Num(25000)}

\* interactive_new_audit: AuditProject(client, opportunities=[], ...)
Init ==
    /\ opportunities = <<>>
    /\ audit_args = <<>>
    /\ roi_data = <<>>
    /\ roi_args = ScenarioArgs
    /\ roi_locals = <<>>
    /\ roi_returned = <<>>
    /\ roi_raised = "none"
    /\ opp = <<>>
    /\ opp_args = <<>>
    /\ opp_record = <<>>
    /\ calls = <<>>
    /\ pc = <<>>
    /\ frames = <<>>
    /\ results = <<>>
    /\ project = <<>>
    /\ report = <<>>
    /\ file = <<>>
    /\ loaded = <<>>
    /\ session = <<>>
    /\ script = "idle"
    /\ event = <<>>
    /\ flags = <<>>
    /\ main_pc = "start"
    /\ trace = <<>>
    /\ output_dir = "missing"

\* main: opp = interactive_add_opportunity(); project.opportunities.append(opp)
AddOpportunity ==
    /\ roi_data = <<>>
    /\ Len(opportunities) < MaxOpps
    /\ \E hours \in AddedHours, employees \in AddedEmployees,
          pair \in AddedPairs :
           opportunities' =
               Append(opportunities,
                      NewOpportunity([hours_saved_weekly |-> hours,
                                      employees_affected |-> employees,
                                      effort |-> pair[1],
                                      impact |-> pair[2],
                                      category |-> ""]))
    /\ UNCHANGED <<audit_args, roi_data>>
    /\ UNCHANGED notProjVars

\* main --example / the web app's empty session: the example list
LoadExample ==
    /\ roi_data = <<>>
    /\ opportunities = <<>>
    /\ opportunities' = ExampleOpportunities
    /\ UNCHANGED <<audit_args, roi_data>>
    /\ UNCHANGED notProjVars

\* roi_data = calculate_audit_roi(project.opportunities, avg_salary, cost)
CalculateAuditRoi ==
    /\ roi_data = <<>>
    /\ \E avg_salary \in AuditSalaries, implementation_cost \in AuditCosts :
           /\ audit_args' = <<[avg_salary |-> avg_salary,
                               implementation_cost |-> implementation_cost]>>
           /\ roi_data' = <<calculate_audit_roi(opportunities, avg_salary,
                                                implementation_cost)>>
    /\ opportunities' = ArgumentAfterCall(opportunities)
    /\ UNCHANGED notProjVars

Next ==
    \/ AddOpportunity
    \/ LoadExample
    \/ CalculateAuditRoi

Spec == Init /\ [][Next]_vars

-----------------------------------------------------------------------------
(* Properties of calculate_audit_roi, checked under Spec                    *)

\* sum of employees_affected_i over the first n opportunities
RECURSIVE RefEmployeesUpTo(_, _)
RefEmployeesUpTo(opps, n) ==
    IF n = 0 THEN 0
    ELSE opps[n].employees_affected + RefEmployeesUpTo(opps, n - 1)

\* sum of hours_saved_weekly_i * employees_affected_i
RECURSIVE RefHours(_, _)
RefHours(opps, n) ==
    IF n = 0 THEN Num(0)
    ELSE Add(Mul(opps[n].hours_saved_weekly, Num(opps[n].employees_affected)),
             RefHours(opps, n - 1))

RefEmployees(opps) == RefEmployeesUpTo(opps, Len(opps))

RefCombined(opps, args) ==
    calculate_roi(Div(RefHours(opps, Len(opps)),
                      Num(IF RefEmployees(opps) >= 1 THEN RefEmployees(opps)
                          ELSE 1)),
                  Num(RefEmployees(opps)),
                  args.avg_salary,
                  args.implementation_cost,
                  Rat(7, 10))

\* C10: 'combined' equals calculate_roi called with hours_saved_weekly =
\* (sum of hours_i * employees_i) / max(sum of employees_i, 1),
\* employees_affected = sum of employees_i, the given salary and the full
\* implementation cost.
C10_CombinedIsWeightedMean ==
    roi_data # <<>> =>
        roi_data[1].combined = RefCombined(opportunities, audit_args[1])

C10_Witness ==
    /\ roi_data # <<>>
    /\ Len(opportunities) = 2
    /\ opportunities[1].employees_affected = 3
    /\ opportunities[2].employees_affected = 8
    /\ opportunities[1].hours_saved_weekly # opportunities[2].hours_saved_weekly
    /\ Positive(audit_args[1].implementation_cost)
    /\ Positive(roi_data[1].combined.annual_savings)

\* the keys of a dict given as its sequence of items
Keys(items) == [i \in 1..Len(items) |-> items[i][1]]

KeySet(items) == {items[i][1] : i \in 1..Len(items)}

\* C11: over an empty opportunity list the call does not fail; 'combined' is
\* the result for 0 hours per person (0 / max(0, 1)) and by_category is the
\* empty mapping.
C11_EmptyListNoCrash ==
    (audit_args # <<>> /\ opportunities = <<>>) =>
        /\ roi_data # <<>>
        /\ RoiException(roi_data[1].combined) = "none"
        /\ roi_data[1].combined =
               calculate_roi(Div(Num(0), Num(1)), Num(0),
                             audit_args[1].avg_salary,
                             audit_args[1].implementation_cost, Rat(7, 10))
        /\ roi_data[1].combined =
               calculate_roi(Div(Num(0), Num(1)), Num(1),
                             audit_args[1].avg_salary,
                             audit_args[1].implementation_cost, Rat(7, 10))
        /\ roi_data[1].by_category = <<>>

C11_Witness ==
    /\ roi_data # <<>>
    /\ opportunities = <<>>
    /\ roi_data[1].by_category = <<>>
    /\ roi_data[1].combined.payback_months = Inf

\* the categories that have at least one opportunity in the list
PresentCategories(opps) ==
    {c \in Categories : \E i \in 1..Len(opps) : opps[i].category = c}

\* C12: the key set of by_category is exactly the set of the four categories
\* that have at least one opportunity in the list.
C12_KeysArePresentCategories ==
    roi_data # <<>> =>
        /\ KeySet(roi_data[1].by_category) = PresentCategories(opportunities)
        /\ Len(roi_data[1].by_category)
               = Cardinality(PresentCategories(opportunities))

C12_Witness ==
    /\ roi_data # <<>>
    /\ Len(opportunities) = 2
    /\ KeySet(roi_data[1].by_category) = {"quick_win", "nice_to_have"}

RefGroup(opps, cat) == SelectSeq(opps, LAMBDA o : o.category = cat)

\* C13: every by_category entry is computed against implementation_cost *
\* 0.25 and reports that amount, whatever the number of categories present;
\* 'combined' is computed against and reports the full cost.
C13_QuarterCostPerCategory ==
    roi_data # <<>> =>
        /\ \A i \in 1..Len(roi_data[1].by_category) :
              LET item == roi_data[1].by_category[i]
                  quarter == Mul(audit_args[1].implementation_cost, Rat(1, 4))
              IN  /\ item[2].implementation_cost = quarter
                  /\ item[2] =
                         RefCombined(RefGroup(opportunities, item[1]),
                                     [avg_salary |-> audit_args[1].avg_salary,
                                      implementation_cost |-> quarter])
        /\ roi_data[1].combined.implementation_cost
               = audit_args[1].implementation_cost

C13_Witness ==
    /\ roi_data # <<>>
    /\ Len(roi_data[1].by_category) = 3
    /\ audit_args[1].implementation_cost = Num(25000)
    /\ roi_data[1].by_category[1][2].implementation_cost = Num(6250)
    /\ roi_data[1].by_category[3][2].implementation_cost = Num(6250)

\* the position of a category in the fixed sequence
FixedPosition(cat) ==
    CASE cat = "quick_win" -> 1
      [] cat = "big_swing" -> 2
      [] cat = "nice_to_have" -> 3
      [] cat = "deprioritize" -> 4
      [] OTHER -> 5

\* C14: the keys of by_category appear in the order quick_win, big_swing,
\* nice_to_have, deprioritize, whatever the order of the opportunities.
C14_KeysInFixedOrder ==
    roi_data # <<>> =>
        \A i, j \in 1..Len(roi_data[1].by_category) :
            i < j => FixedPosition(Keys(roi_data[1].by_category)[i])
                         < FixedPosition(Keys(roi_data[1].by_category)[j])

C14_Witness ==
    /\ roi_data # <<>>
    /\ Len(opportunities) = 2
    /\ opportunities[1].category = "deprioritize"
    /\ opportunities[2].category = "quick_win"
    /\ Keys(roi_data[1].by_category) = <<"quick_win", "deprioritize">>

\* C15: the step in which calculate_audit_roi returns leaves the opportunity
\* list as it was: same length, same order, every field of every
\* Opportunity unchanged.
C15_InputsNotMutated ==
    [][roi_data' # roi_data => opportunities' = opportunities]_vars

C15_Witness ==
    /\ roi_data # <<>>
    /\ Len(opportunities) = 2
    /\ opportunities[1].category = "quick_win"
    /\ opportunities[2].category = "big_swing"
    /\ opportunities[1].employees_affected # opportunities[2].employees_affected

\* the unrounded annual_savings of calculate_roi applied to each opportunity
\* of the list separately, summed
RECURSIVE SumOfSeparateSavings(_, _)
SumOfSeparateSavings(opps, args) ==
    IF opps = <<>> THEN Num(0)
    ELSE Add(SumOfSeparateSavings(Tail(opps), args),
             RoiLocals(Head(opps).hours_saved_weekly,
                       Num(Head(opps).employees_affected),
                       args.avg_salary,
                       args.implementation_cost,
                       DefaultEfficiency).annual_savings)

\* the unrounded annual_savings of the call that computes 'combined'
CombinedSavings(opps, args) ==
    RoiLocals(PerPersonHours(opps), Num(TotalEmployees(opps)),
              args.avg_salary, args.implementation_cost,
              DefaultEfficiency).annual_savings

DifferingEmployees(opps) ==
    \E i, j \in 1..Len(opps) :
        /\ opps[i].employees_affected > 0
        /\ opps[j].employees_affected > 0
        /\ opps[i].employees_affected # opps[j].employees_affected

\* the opportunities AddOpportunity can append
AddedOpportunities ==
    {NewOpportunity([hours_saved_weekly |-> hours,
                     employees_affected |-> employees,
                     effort |-> pair[1],
                     impact |-> pair[2],
                     category |-> ""]) :
        hours \in AddedHours, employees \in AddedEmployees, pair \in AddedPairs}

\* the opportunity lists a project can hold: the example list and every list
\* of at most MaxOpps added opportunities
ProjectLists ==
    {ExampleOpportunities}
        \cup UNION {[1..n -> AddedOpportunities] : n \in 0..MaxOpps}

-----------------------------------------------------------------------------
(* Properties of calculate_roi, checked under SpecRoi                       *)

RoiCallEnded == roi_locals # <<>>
RoiCallReturned == roi_returned # <<>>

IsZero(x) == x = Num(0)

\* |x - y| <= 0.02
Within002(x, y) ==
    /\ IsFinite(x) /\ IsFinite(y)
    /\ Leq(Sub(x, y), Rat(1, 50))
    /\ Leq(Sub(y, x), Rat(1, 50))

\* the inputs the error taxonomy calls invalid
InvalidFinancial(args) ==
    \/ Negative(args.avg_annual_salary)
    \/ Negative(args.hours_saved_weekly)
    \/ ~Positive(args.employees_affected)
    \/ Negative(args.implementation_cost)

\* C5 (as claimed): a call with negative salary, negative hours, zero or
\* negative employees or negative cost raises InvalidFinancialInput and
\* returns no ROI result.
C5_InvalidFinancialRejected ==
    (RoiCallEnded /\ InvalidFinancial(roi_args)) =>
        (roi_raised = "InvalidFinancialInput" /\ ~RoiCallReturned)

\* C6: with implementation_cost = 0 the call returns normally and
\* roi_percentage is 0; no division by the cost is evaluated.
C6_ZeroCostRoiIsZero ==
    (RoiCallEnded /\ IsZero(roi_args.implementation_cost)) =>
        /\ roi_raised = "none"
        /\ RoiCallReturned
        /\ roi_returned[1].roi_percentage = Num(0)
        /\ roi_locals[1].roi_percentage = Num(0)

C6_Witness ==
    /\ RoiCallReturned
    /\ IsZero(roi_args.implementation_cost)
    /\ Positive(roi_locals[1].annual_savings)

\* the input shapes the claim lists as giving annual savings of 0
ZeroSavingsInput(args) ==
    \/ IsZero(args.hours_saved_weekly)
    \/ IsZero(args.employees_affected)
    \/ IsZero(args.avg_annual_salary)
    \/ (args.efficiency_given /\ IsZero(args.automation_efficiency))

\* C7: when the annual savings are 0 the call returns normally with
\* payback_months = +infinity, whatever the implementation cost (0 included).
C7_ZeroSavingsPaybackInf ==
    (RoiCallEnded /\ ZeroSavingsInput(roi_args)) =>
        /\ roi_raised = "none"
        /\ RoiCallReturned
        /\ IsZero(roi_locals[1].annual_savings)
        /\ roi_returned[1].payback_months = Inf

C7_Witness ==
    /\ RoiCallReturned
    /\ IsZero(roi_args.hours_saved_weekly)
    /\ IsZero(roi_args.implementation_cost)
    /\ roi_returned[1].payback_months = Inf

\* C8 (as claimed): the scenario returns hourly_rate 29.81, hours 21.0,
\* weekly_savings 626.01, annual_savings 32552.52, annual_revenue_potential
\* 16276.26, total_annual_value 48828.78, roi 30.2, payback 9.2 (+-0.02).
C8_ScenarioAsClaimed ==
    (RoiCallEnded /\ roi_args = ScenarioArgs) =>
        /\ RoiCallReturned
        /\ Within002(roi_returned[1].hourly_rate, Rat(2981, 100))
        /\ Within002(roi_returned[1].hours_saved_weekly, Num(21))
        /\ Within002(roi_returned[1].weekly_savings, Rat(62601, 100))
        /\ Within002(roi_returned[1].annual_savings, Rat(3255252, 100))
        /\ Within002(roi_returned[1].annual_revenue_potential, Rat(1627626, 100))
        /\ Within002(roi_returned[1].total_annual_value, Rat(4882878, 100))
        /\ Within002(roi_returned[1].roi_percentage, Rat(302, 10))
        /\ Within002(roi_returned[1].payback_months, Rat(92, 10))

\* C8 (amended): the scenario returns hourly_rate 29.81, hours 21.0,
\* weekly_savings 625.96, annual_savings 32550.00, annual_revenue_potential
\* 32550.00, total_annual_value 65100.00, roi 30.2, payback 9.2 (+-0.02).
C8_ScenarioAmended ==
    (RoiCallEnded /\ roi_args = ScenarioArgs) =>
        /\ RoiCallReturned
        /\ Within002(roi_returned[1].hourly_rate, Rat(2981, 100))
        /\ Within002(roi_returned[1].hours_saved_weekly, Num(21))
        /\ Within002(roi_returned[1].weekly_savings, Rat(62596, 100))
        /\ Within002(roi_returned[1].annual_savings, Num(32550))
        /\ Within002(roi_returned[1].annual_revenue_potential, Num(32550))
        /\ Within002(roi_returned[1].total_annual_value, Num(65100))
        /\ Within002(roi_returned[1].roi_percentage, Rat(302, 10))
        /\ Within002(roi_returned[1].payback_months, Rat(92, 10))

C8_Witness ==
    /\ roi_args = ScenarioArgs
    /\ RoiCallReturned
    /\ roi_returned[1].implementation_cost = Num(25000)

\* the reference formula of the claim, from the call's arguments alone
RefEfficiency(args) ==
    IF args.efficiency_given THEN args.automation_efficiency ELSE Rat(7, 10)

RefAnnualSavings(args) ==
    Mul(Mul(Mul(Mul(args.hours_saved_weekly, args.employees_affected),
                RefEfficiency(args)),
            Div(args.avg_annual_salary, Num(2080))),
        Num(52))

RefRoiPercentage(args) ==
    Mul(Div(Sub(RefAnnualSavings(args), args.implementation_cost),
            args.implementation_cost), Num(100))

RefPaybackMonths(args) ==
    Div(args.implementation_cost, Div(RefAnnualSavings(args), Num(12)))

\* C9: for valid input with implementation_cost > 0 and positive savings the
\* unrounded annual_savings, roi_percentage and payback_months equal the
\* reference formula, total_annual_value is annual_savings plus
\* annual_revenue_potential, and an omitted efficiency counts as 0.7.
C9_ReferenceFormula ==
    (/\ RoiCallEnded
     /\ ~InvalidFinancial(roi_args)
     /\ Positive(roi_args.implementation_cost)
     /\ Positive(RefAnnualSavings(roi_args))) =>
        /\ RoiCallReturned
        /\ roi_locals[1].annual_savings = RefAnnualSavings(roi_args)
        /\ roi_locals[1].roi_percentage = RefRoiPercentage(roi_args)
        /\ roi_locals[1].payback_months = RefPaybackMonths(roi_args)
        /\ roi_locals[1].total_annual_value =
               Add(roi_locals[1].annual_savings,
                   roi_locals[1].annual_revenue_potential)

C9_Witness ==
    /\ RoiCallReturned
    /\ ~InvalidFinancial(roi_args)
    /\ ~roi_args.efficiency_given
    /\ roi_args.hours_saved_weekly = Rat(5, 2)
    /\ Positive(roi_args.implementation_cost)
    /\ Positive(roi_locals[1].annual_savings)

\* C22: in every call the unrounded annual_revenue_potential equals the
\* unrounded annual_savings, and the unrounded total_annual_value is twice
\* the annual_savings.
C22_RevenuePotentialEqualsSavings ==
    RoiCallEnded =>
        /\ roi_locals[1].annual_revenue_potential = roi_locals[1].annual_savings
        /\ roi_locals[1].total_annual_value
               = Mul(Num(2), roi_locals[1].annual_savings)

C22_Witness ==
    /\ RoiCallReturned
    /\ roi_args = ScenarioArgs
    /\ roi_locals[1].annual_savings = Num(32550)
    /\ roi_locals[1].annual_revenue_potential = Num(32550)
    /\ roi_locals[1].total_annual_value = Num(65100)

-----------------------------------------------------------------------------
(* Concurrent callers.  Each caller makes one call of Opportunity(...),     *)
(* calculate_roi or calculate_audit_roi; a step executes one statement of   *)
(* one call, so the calls interleave freely.  A call keeps the names it     *)
(* binds (parameters and local variables) in its frame.                     *)

Callers == {1, 2}

\* the frame of a call before its parameters are bound
EmptyFrame ==
    [args |-> <<>>, self |-> <<>>, locals |-> <<>>,
     total_hours |-> <<>>, total_employees |-> <<>>, combined |-> <<>>,
     by_category |-> <<>>, visited |-> 0]

\* mutant: the names the functions bind are module-level globals, one set
\* for all callers
LocalsOf_shared(caller) == 1

\* the frame holding the names bound by the call of a caller: every name
\* assigned in the three functions is a parameter or a local variable, and
\* each call gets a frame of its own
LocalsOf(caller) == caller

ConcOpportunityArgs ==
    {[hours_saved_weekly |-> Num(5), employees_affected |-> 1,
      effort |-> pair[1], impact |-> pair[2], category |-> ""] :
        pair \in {<<"low", "high">>, <<"high", "high">>}}

ConcRoiArgs ==
    {[ScenarioArgs EXCEPT !.avg_annual_salary = salary] :
        salary \in AuditSalaries}

ConcAuditArgs ==
    [opportunities : {ExampleOpportunities,
                      <<ExampleOpportunities[4], ExampleOpportunities[1]>>},
     avg_salary : AuditSalaries,
     implementation_cost : {Num(25000)}]

ConcCalls ==
    [function : {"Opportunity"}, args : ConcOpportunityArgs]
        \cup [function : {"calculate_roi"}, args : ConcRoiArgs]
        \cup [function : {"calculate_audit_roi"}, args : ConcAuditArgs]

\* the first statement of each function
FirstStatement(function) ==
    CASE function = "Opportunity" -> "__init__"
      [] function = "calculate_roi" -> "roi_body"
      [] function = "calculate_audit_roi" -> "total_hours"

InitConc ==
    /\ calls \in [Callers -> ConcCalls]
    /\ pc = [c \in Callers |-> "idle"]
    /\ frames = [f \in Callers |-> EmptyFrame]
    /\ results = [c \in Callers |-> <<>>]
    /\ roi_args = ScenarioArgs
    /\ roi_locals = <<>>
    /\ roi_returned = <<>>
    /\ roi_raised = "none"
    /\ opp = <<>>
    /\ opp_args = <<>>
    /\ opp_record = <<>>
    /\ opportunities = <<>>
    /\ audit_args = <<>>
    /\ roi_data = <<>>
    /\ project = <<>>
    /\ report = <<>>
    /\ file = <<>>
    /\ loaded = <<>>
    /\ session = <<>>
    /\ script = "idle"
    /\ event = <<>>
    /\ flags = <<>>
    /\ main_pc = "start"
    /\ trace = <<>>
    /\ output_dir = "missing"

\* caller c executes a statement that leaves the frame as 'frame' and
\* continues at 'next'
Step(c, frame, next) ==
    /\ frames' = [frames EXCEPT ![LocalsOf(c)] = frame]
    /\ pc' = [pc EXCEPT ![c] = next]
    /\ UNCHANGED <<calls, results>>
    /\ UNCHANGED notConcVars

\* caller c executes a return statement with the value 'value'
Return(c, value) ==
    /\ results' = [results EXCEPT ![c] = <<value>>]
    /\ pc' = [pc EXCEPT ![c] = "returned"]
    /\ UNCHANGED <<calls, frames>>
    /\ UNCHANGED notConcVars

\* the call is made: a frame is set up and the parameters are bound
Call(c) ==
    /\ pc[c] = "idle"
    /\ Step(c, [EmptyFrame EXCEPT !.args = <<calls[c].args>>],
            FirstStatement(calls[c].function))

\* the generated __init__ of Opportunity stores the arguments in self
OpportunityInit(c) ==
    /\ pc[c] = "__init__"
    /\ LET frame == frames[LocalsOf(c)]
           args == frame.args[1]
       IN  Step(c, [frame EXCEPT !.self =
                       <<[hours_saved_weekly |-> args.hours_saved_weekly,
                          employees_affected |-> args.employees_affected,
                          effort |-> args.effort,
                          impact |-> args.impact,
                          category |-> args.category]>>],
                "__post_init__")

\* __post_init__ reads and writes the fields of self
OpportunityPostInit(c) ==
    /\ pc[c] = "__post_init__"
    /\ LET frame == frames[LocalsOf(c)]
       IN  Step(c, [frame EXCEPT !.self = <<PostInit(frame.self[1])>>],
                "new_return")

\* the constructor call evaluates to self
OpportunityReturn(c) ==
    /\ pc[c] = "new_return"
    /\ Return(c, frames[LocalsOf(c)].self[1])

\* calculate_roi, hourly_rate = ... to payback_months = ...
RoiBody(c) ==
    /\ pc[c] = "roi_body"
    /\ LET frame == frames[LocalsOf(c)]
           args == frame.args[1]
       IN  Step(c, [frame EXCEPT !.locals =
                       <<RoiLocals(args.hours_saved_weekly,
                                   args.employees_affected,
                                   args.avg_annual_salary,
                                   args.implementation_cost,
                                   BoundEfficiency(args))>>],
                "roi_return")

\* calculate_roi, return {...}
RoiReturnStatement(c) ==
    /\ pc[c] = "roi_return"
    /\ Return(c, RoiReturn(frames[LocalsOf(c)].locals[1]))

\* calculate_audit_roi, total_hours = sum(...)
AuditTotalHours(c) ==
    /\ pc[c] = "total_hours"
    /\ LET frame == frames[LocalsOf(c)]
       IN  Step(c, [frame EXCEPT !.total_hours =
                       <<TotalHours(frame.args[1].opportunities)>>],
                "total_employees")

\* calculate_audit_roi, total_employees = sum(...)
AuditTotalEmployees(c) ==
    /\ pc[c] = "total_employees"
    /\ LET frame == frames[LocalsOf(c)]
       IN  Step(c, [frame EXCEPT !.total_employees =
                       <<TotalEmployees(frame.args[1].opportunities)>>],
                "combined")

\* calculate_audit_roi, combined = calculate_roi(...)
AuditCombined(c) ==
    /\ pc[c] = "combined"
    /\ LET frame == frames[LocalsOf(c)]
           args == frame.args[1]
       IN  Step(c, [frame EXCEPT !.combined =
                       <<calculate_roi(
                             Div(frame.total_hours[1],
                                 Num(Max(frame.total_employees[1], 1))),
                             Num(frame.total_employees[1]),
                             args.avg_salary,
                             args.implementation_cost,
                             DefaultEfficiency)>>],
                "by_category")

\* calculate_audit_roi, by_category = {}
AuditByCategory(c) ==
    /\ pc[c] = "by_category"
    /\ LET frame == frames[LocalsOf(c)]
       IN  Step(c, [frame EXCEPT !.by_category = <<>>, !.visited = 0],
                "for_cat")

\* calculate_audit_roi, one iteration of "for cat in [...]"
AuditForCat(c) ==
    /\ pc[c] = "for_cat"
    /\ frames[LocalsOf(c)].visited < Len(CategoryOrder)
    /\ LET frame == frames[LocalsOf(c)]
           args == frame.args[1]
           cat == CategoryOrder[frame.visited + 1]
           cat_opps == CatOpps(args.opportunities, cat)
       IN  Step(c, [frame EXCEPT
                       !.visited = @ + 1,
                       !.by_category =
                           IF cat_opps # <<>>
                           THEN Append(@, <<cat, CategoryRoi(cat_opps,
                                                  args.avg_salary,
                                                  args.implementation_cost)>>)
                           ELSE @],
                IF frame.visited + 1 = Len(CategoryOrder)
                THEN "audit_return" ELSE "for_cat")

\* calculate_audit_roi, return {"combined": ..., "by_category": ...}
AuditReturn(c) ==
    /\ pc[c] = "audit_return"
    /\ LET frame == frames[LocalsOf(c)]
       IN  Return(c, [combined |-> frame.combined[1],
                      by_category |-> frame.by_category])

NextConc ==
    \E c \in Callers :
        \/ Call(c)
        \/ OpportunityInit(c)
        \/ OpportunityPostInit(c)
        \/ OpportunityReturn(c)
        \/ RoiBody(c)
        \/ RoiReturnStatement(c)
        \/ AuditTotalHours(c)
        \/ AuditTotalEmployees(c)
        \/ AuditCombined(c)
        \/ AuditByCategory(c)
        \/ AuditForCat(c)
        \/ AuditReturn(c)

SpecConc == InitConc /\ [][NextConc]_vars

-----------------------------------------------------------------------------
(* Properties of concurrent calls, checked under SpecConc                   *)

\* the value the call returns when it runs with no other call in progress
RunAlone(call) ==
    CASE call.function = "Opportunity" -> NewOpportunity(call.args)
      [] call.function = "calculate_roi" ->
             calculate_roi(call.args.hours_saved_weekly,
                           call.args.employees_affected,
                           call.args.avg_annual_salary,
                           call.args.implementation_cost,
                           BoundEfficiency(call.args))
      [] call.function = "calculate_audit_roi" ->
             calculate_audit_roi(call.args.opportunities,
                                 call.args.avg_salary,
                                 call.args.implementation_cost)

\* the step changes the position, a bound name or the result of caller c
Touched(c) ==
    \/ pc'[c] # pc[c]
    \/ frames'[c] # frames[c]
    \/ results'[c] # results[c]

\* C18: in every interleaving each call returns the value the same call
\* returns when run alone; no step changes the arguments of a call, and
\* no step of one caller changes a name bound by, or the result of, another.
C18_ConcurrentCallsIndependent ==
    /\ [](\A c \in Callers :
             pc[c] = "returned" => results[c] = <<RunAlone(calls[c])>>)
    /\ [][/\ calls' = calls
          /\ \A c, d \in Callers :
                c # d => ~(Touched(c) /\ Touched(d))]_vars

C18_Witness ==
    /\ pc[1] = "for_cat"
    /\ frames[1].visited = 2
    /\ pc[2] = "returned"
    /\ calls[1].function = "calculate_audit_roi"
    /\ calls[2].function = "calculate_audit_roi"
    /\ calls[1].args.opportunities = calls[2].args.opportunities
    /\ calls[1].args.avg_salary # calls[2].args.avg_salary
    /\ results[2] = <<RunAlone(calls[2])>>

-----------------------------------------------------------------------------
(* The AuditProject instance: its status label, the opportunities appended  *)
(* to it and the roadmap phases of its executive report.                    *)

MaxProjectOpps == 4

Statuses == {"discovery", "analysis", "presentation"}

\* the dataclass defaults of AuditProject
DefaultInterviewsCompleted == 0
DefaultStatus == "discovery"

\* the number of interviews of the example audit
ExampleInterviewsCompleted == 8

\* AuditProject(client, opportunities, created_date, interviews_completed,
\* status): the generated __init__ stores the arguments
AuditProject(opps, interviews_completed, status) ==
    [opportunities |-> opps,
     interviews_completed |-> interviews_completed,
     status |-> status]

\* mutant: the label only moves forward, an assignment of an earlier or the
\* same value is ignored
AssignStatus_forwardOnly(p, value) ==
    IF \/ p.status = "discovery" /\ value \in {"analysis", "presentation"}
       \/ p.status = "analysis" /\ value = "presentation"
    THEN [p EXCEPT !.status = value]
    ELSE p

\* project.status = value: a plain attribute assignment, the dataclass is
\* not frozen and defines no __setattr__
AssignStatus(p, value) == [p EXCEPT !.status = value]

ReportLimit == 3

Min(a, b) == IF a < b THEN a ELSE b

\* s[:n]
Slice(s, n) == SubSeq(s, 1, Min(n, Len(s)))

\* mutant: the last three opportunities of the category are listed
Top_last(s) == SubSeq(s, Max(1, Len(s) - ReportLimit + 1), Len(s))

\* quick_wins[:3], big_swings[:3]
Top(s) == Slice(s, ReportLimit)

\* enumerate(s, 1): the pairs <<i, s[i]>>
Enumerate(s) == [i \in 1..Len(s) |-> <<i, s[i]>>]

\* the roadmap of generate_executive_report: the numbered entries under the
\* Phase 1 heading, whether the Phase 2 heading is written, and the
\* numbered entries under it
ExecutiveReport(p) ==
    LET quick_wins == CatOpps(p.opportunities, "quick_win")
        big_swings == CatOpps(p.opportunities, "big_swing")
    IN  [phase1 |-> Enumerate(Top(quick_wins)),
         phase2_heading |-> big_swings # <<>>,
         phase2 |-> IF big_swings # <<>>
                    THEN Enumerate(Top(big_swings))
                    ELSE <<>>]

\* the opportunities entered in the wizard
WizardHours == {Rat(5, 2), Num(6)}
WizardPairs == {<<"low", "high">>, <<"high", "high">>, <<"low", "low">>}

InitProject ==
    /\ project = <<>>
    /\ report = <<>>
    /\ file = <<>>
    /\ loaded = <<>>
    /\ session = <<>>
    /\ script = "idle"
    /\ event = <<>>
    /\ flags = <<>>
    /\ main_pc = "start"
    /\ trace = <<>>
    /\ output_dir = "missing"
    /\ roi_args = ScenarioArgs
    /\ roi_locals = <<>>
    /\ roi_returned = <<>>
    /\ roi_raised = "none"
    /\ opp = <<>>
    /\ opp_args = <<>>
    /\ opp_record = <<>>
    /\ opportunities = <<>>
    /\ audit_args = <<>>
    /\ roi_data = <<>>
    /\ calls = <<>>
    /\ pc = <<>>
    /\ frames = <<>>
    /\ results = <<>>

\* project = AuditProject(client=client, opportunities=[], created_date=...)
interactive_new_audit ==
    /\ project = <<>>
    /\ project' = <<AuditProject(<<>>, DefaultInterviewsCompleted,
                                 DefaultStatus)>>
    /\ UNCHANGED report
    /\ UNCHANGED notReportVars

\* main --example and the web app: AuditProject(..., interviews_completed=8,
\* status="analysis") over the example opportunities
ExampleAudit ==
    /\ project = <<>>
    /\ project' = <<AuditProject(ExampleOpportunities,
                                 ExampleInterviewsCompleted, "analysis")>>
    /\ UNCHANGED report
    /\ UNCHANGED notReportVars

\* opp = interactive_add_opportunity(); project.opportunities.append(opp)
AppendOpportunity ==
    /\ project # <<>>
    /\ Len(project[1].opportunities) < MaxProjectOpps
    /\ \E hours \in WizardHours, pair \in WizardPairs :
           project' =
               <<[project[1] EXCEPT !.opportunities =
                     Append(@, NewOpportunity(
                                   [hours_saved_weekly |-> hours,
                                    employees_affected |-> 3,
                                    effort |-> pair[1],
                                    impact |-> pair[2],
                                    category |-> ""]))]>>
    /\ UNCHANGED report
    /\ UNCHANGED notReportVars

\* project.status = value
SetStatus(value) ==
    /\ project # <<>>
    /\ project' = <<AssignStatus(project[1], value)>>
    /\ UNCHANGED report
    /\ UNCHANGED notReportVars

\* report = generate_executive_report(project, roi_data)
GenerateExecutiveReport ==
    /\ project # <<>>
    /\ report' = <<ExecutiveReport(project[1])>>
    /\ UNCHANGED project
    /\ UNCHANGED notReportVars

NextProject ==
    \/ interactive_new_audit
    \/ ExampleAudit
    \/ AppendOpportunity
    \/ \E value \in Statuses : SetStatus(value)
    \/ GenerateExecutiveReport

SpecProject == InitProject /\ [][NextProject]_vars

-----------------------------------------------------------------------------
(* Properties of the AuditProject, checked under SpecProject                *)

\* C19: whatever the status of a project, each of discovery, analysis and
\* presentation can be set next; setting the status changes no other field
\* of the project; a project created without a status has status discovery
\* and interviews_completed 0.
C19_StatusUnguardedLabel ==
    /\ [](project # <<>> =>
             \A value \in Statuses :
                 ENABLED (SetStatus(value) /\ project'[1].status = value))
    /\ [][/\ \A value \in Statuses :
                SetStatus(value) =>
                    /\ project'[1].status = value
                    /\ project'[1].opportunities = project[1].opportunities
                    /\ project'[1].interviews_completed
                           = project[1].interviews_completed
          /\ interactive_new_audit =>
                    /\ project'[1].status = "discovery"
                    /\ project'[1].interviews_completed = 0]_vars

C19_Witness ==
    /\ project # <<>>
    /\ project[1].status = "discovery"
    /\ project[1].interviews_completed = 8
    /\ Len(project[1].opportunities) = 7

\* the number of opportunities of category cat among the first i of opps
CountUpTo(opps, cat, i) ==
    Cardinality({j \in 1..i : opps[j].category = cat})

\* 'entries' are, numbered from 1 in list order, the first three
\* opportunities of category cat in opps
IsTopThree(entries, opps, cat) ==
    /\ Len(entries) = Min(3, CountUpTo(opps, cat, Len(opps)))
    /\ \A k \in 1..Len(entries) :
          /\ entries[k][1] = k
          /\ \E i \in 1..Len(opps) :
                /\ opps[i].category = cat
                /\ CountUpTo(opps, cat, i) = k
                /\ entries[k][2] = opps[i]

\* C20: a generated report lists under Phase 1 the first three quick_win
\* opportunities in list order, numbered 1..3, under Phase 2 the same for
\* big_swing, and has no Phase 2 when there is no big_swing; an opportunity
\* added to a project is appended at the end of its list.
C20_InsertionOrderDrivesTopThree ==
    [][/\ GenerateExecutiveReport =>
             /\ IsTopThree(report'[1].phase1, project[1].opportunities,
                           "quick_win")
             /\ IsTopThree(report'[1].phase2, project[1].opportunities,
                           "big_swing")
             /\ report'[1].phase2_heading
                    = (CountUpTo(project[1].opportunities, "big_swing",
                                 Len(project[1].opportunities)) > 0)
       /\ AppendOpportunity =>
             /\ Len(project'[1].opportunities)
                    = Len(project[1].opportunities) + 1
             /\ SubSeq(project'[1].opportunities, 1,
                       Len(project[1].opportunities))
                    = project[1].opportunities]_vars

C20_Witness ==
    /\ project # <<>>
    /\ report # <<>>
    /\ Len(project[1].opportunities) = 4
    /\ \A i \in 1..4 : project[1].opportunities[i].category = "quick_win"
    /\ project[1].opportunities[1].hours_saved_weekly = Num(6)
    /\ project[1].opportunities[4].hours_saved_weekly = Rat(5, 2)
    /\ report[1].phase1 = <<<<1, project[1].opportunities[1]>>,
                            <<2, project[1].opportunities[2]>>,
                            <<3, project[1].opportunities[3]>>>>
    /\ ~report[1].phase2_heading
    /\ report[1].phase2 = <<>>

-----------------------------------------------------------------------------
(* Persistence: save_project writes the project as a JSON document,         *)
(* load_project builds a project from the document; calculate_audit_roi is  *)
(* called on the list of a constructed or of a loaded project.              *)

MaxStoredOpps == 2

\* constructor arguments of the opportunities put into a project: without
\* a category, with one of the four categories that differs from the
\* classification of effort and impact, and with a category outside the four
StoredOpportunityArgs ==
    {[hours_saved_weekly |-> Num(6), employees_affected |-> 3,
      effort |-> "low", impact |-> "high", category |-> ""],
     [hours_saved_weekly |-> Rat(5, 2), employees_affected |-> 8,
      effort |-> "low", impact |-> "high", category |-> "big_swing"],
     [hours_saved_weekly |-> Num(6), employees_affected |-> 1,
      effort |-> "high", impact |-> "high", category |-> "custom"],
     [hours_saved_weekly |-> Rat(5, 2), employees_affected |-> 3,
      effort |-> "low", impact |-> "low", category |-> ""]}

\* the implementation cost main passes for a loaded project
ProjectImplementationCost == 15000

\* dataclasses.asdict(project): the opportunities become dicts, the scalar
\* fields are copied
ProjectAsDict(p) ==
    [opportunities |-> [i \in 1..Len(p.opportunities) |->
                            AsDict(p.opportunities[i])],
     interviews_completed |-> p.interviews_completed,
     status |-> p.status]

\* data.get(key, default)
DictGet(data, key, default) ==
    IF key \in DOMAIN data THEN data[key] ELSE default

\* mutant: the stored category is dropped and derived again on loading
LoadProject_rederived(data) ==
    AuditProject([i \in 1..Len(data.opportunities) |->
                     NewOpportunity([data.opportunities[i]
                                         EXCEPT !.category = ""])],
                 DictGet(data, "interviews_completed",
                         DefaultInterviewsCompleted),
                 DictGet(data, "status", DefaultStatus))

\* load_project: Opportunity(**o) for every stored record, then
\* AuditProject(..., data.get("interviews_completed", 0),
\* data.get("status", "discovery"))
LoadProject(data) ==
    AuditProject([i \in 1..Len(data.opportunities) |->
                     NewOpportunity(data.opportunities[i])],
                 DictGet(data, "interviews_completed",
                         DefaultInterviewsCompleted),
                 DictGet(data, "status", DefaultStatus))

InitStore ==
    /\ project = <<>>
    /\ file = <<>>
    /\ loaded = <<>>
    /\ session = <<>>
    /\ script = "idle"
    /\ event = <<>>
    /\ flags = <<>>
    /\ main_pc = "start"
    /\ trace = <<>>
    /\ output_dir = "missing"
    /\ opportunities = <<>>
    /\ audit_args = <<>>
    /\ roi_data = <<>>
    /\ report = <<>>
    /\ roi_args = ScenarioArgs
    /\ roi_locals = <<>>
    /\ roi_returned = <<>>
    /\ roi_raised = "none"
    /\ opp = <<>>
    /\ opp_args = <<>>
    /\ opp_record = <<>>
    /\ calls = <<>>
    /\ pc = <<>>
    /\ frames = <<>>
    /\ results = <<>>

\* project.opportunities.append(Opportunity(**args))
AppendConstructed ==
    /\ project # <<>>
    /\ Len(project[1].opportunities) < MaxStoredOpps
    /\ \E args \in StoredOpportunityArgs :
           project' = <<[project[1] EXCEPT !.opportunities =
                            Append(@, NewOpportunity(args))]>>
    /\ UNCHANGED <<file, loaded, opportunities, audit_args, roi_data>>
    /\ UNCHANGED notStoreVars

\* save_project(project, output_dir): json.dump(asdict(project), f)
save_project ==
    /\ project # <<>>
    /\ file' = <<ProjectAsDict(project[1])>>
    /\ UNCHANGED <<project, loaded, opportunities, audit_args, roi_data>>
    /\ UNCHANGED notStoreVars

\* load_project(filepath): data = json.load(f); return AuditProject(...)
load_project ==
    /\ file # <<>>
    /\ loaded' = <<LoadProject(file[1])>>
    /\ UNCHANGED <<project, file, opportunities, audit_args, roi_data>>
    /\ UNCHANGED notStoreVars

\* roi_data = calculate_audit_roi(project.opportunities, avg_salary, 15000)
\* on a constructed or on a loaded project
StoredAuditRoi ==
    /\ \E p \in {project, loaded}, avg_salary \in AuditSalaries :
           /\ p # <<>>
           /\ opportunities' = p[1].opportunities
           /\ audit_args' =
                  <<[avg_salary |-> avg_salary,
                     implementation_cost |-> Num(ProjectImplementationCost)]>>
           /\ roi_data' =
                  <<calculate_audit_roi(p[1].opportunities, avg_salary,
                                        Num(ProjectImplementationCost))>>
    /\ UNCHANGED <<project, file, loaded>>
    /\ UNCHANGED notStoreVars

NextStore ==
    \/ interactive_new_audit
    \/ ExampleAudit
    \/ AppendConstructed
    \/ save_project
    \/ load_project
    \/ StoredAuditRoi

SpecStore == InitStore /\ [][NextStore]_vars

-----------------------------------------------------------------------------
(* Properties of persistence and of stored lists, checked under SpecStore   *)

\* the unrounded adjusted weekly hours (actual_hours_saved) of the call
\* that computes the figures of the opportunities opps
AdjustedHours(opps, args) ==
    RoiLocals(PerPersonHours(opps), Num(TotalEmployees(opps)),
              args.avg_salary, args.implementation_cost,
              DefaultEfficiency).hours_saved_weekly

\* the sum of the adjusted weekly hours over the first k entries of the
\* returned by_category
RECURSIVE SumOfCategoryHours(_, _, _, _)
SumOfCategoryHours(items, opps, args, k) ==
    IF k = 0 THEN Num(0)
    ELSE Add(SumOfCategoryHours(items, opps, args, k - 1),
             AdjustedHours(RefGroup(opps, items[k][1]), args))

\* C21 (as claimed): for every list the program holds, the unrounded
\* adjusted weekly hours of the by_category entries sum to the unrounded
\* adjusted weekly hours of 'combined'.
C21_CategoriesPartitionCombined ==
    roi_data # <<>> =>
        SumOfCategoryHours(roi_data[1].by_category, opportunities,
                           audit_args[1], Len(roi_data[1].by_category))
            = AdjustedHours(opportunities, audit_args[1])

-----------------------------------------------------------------------------
(* The web app (src/app.py).  Streamlit runs the script from the top on     *)
(* every user interaction; st.session_state.opportunities survives the      *)
(* runs.  A run initialises the session list, builds the project and calls  *)
(* calculate_audit_roi, then reaches the add form.                          *)

MaxSessionOpps == 9

ExampleNames ==
    <<"Digital Incident Reporting & SIRS Compliance",
      "AI-Assisted Quality Standards Documentation",
      "Automated AN-ACC Care Minutes Tracking",
      "Electronic Medication Management",
      "Clinical Care Plan Automation",
      "Resident & Family Communication Portal",
      "Staff Rostering Optimisation">>

\* the seven dicts the app assigns to st.session_state.opportunities
ExampleRecords ==
    [i \in 1..Len(ExampleNames) |->
        [name |-> ExampleNames[i],
         hours_saved_weekly |-> ExampleOpportunities[i].hours_saved_weekly,
         employees_affected |-> ExampleOpportunities[i].employees_affected,
         effort |-> ExampleOpportunities[i].effort,
         impact |-> ExampleOpportunities[i].impact]]

\* the values of the add form when it is submitted
FormValues ==
    [name : {"", "Shift handover notes"},
     hours_saved_weekly : {Num(5)},
     employees_affected : {3},
     effort : {"low", "high"},
     impact : {"high", "low"}]

\* the widget values of a script run nobody clicked in
NoEvent == [load_example |-> FALSE, submitted |-> FALSE, form |-> <<>>]

\* the sidebar defaults of the salary and the implementation cost
AppSalary == 62000
AppImplementationCost == 25000

\* mutant: the example list is assigned only when the session has no list
SessionAfterInit_keep(state, load_example) ==
    IF state = <<>> \/ state = <<<<>>>>
    THEN <<ExampleRecords>>
    ELSE state

\* st.session_state.opportunities after the initialisation at the top of
\* the script: a missing key becomes [], and the example list is assigned
\* when the button was clicked or the list is empty
SessionAfterInit(state, load_example) ==
    LET present == IF state = <<>> THEN <<>> ELSE state[1]
    IN  IF load_example \/ present = <<>>
        THEN <<ExampleRecords>>
        ELSE <<present>>

\* Opportunity(name=o["name"], ..., effort=o["effort"], impact=o["impact"])
OpportunityOfRecord(o) ==
    NewOpportunity([hours_saved_weekly |-> o.hours_saved_weekly,
                    employees_affected |-> o.employees_affected,
                    effort |-> o.effort,
                    impact |-> o.impact,
                    category |-> ""])

InitApp ==
    /\ session = <<>>
    /\ script = "idle"
    /\ event = NoEvent
    /\ opportunities = <<>>
    /\ audit_args = <<>>
    /\ roi_data = <<>>
    /\ project = <<>>
    /\ report = <<>>
    /\ file = <<>>
    /\ loaded = <<>>
    /\ flags = <<>>
    /\ main_pc = "start"
    /\ trace = <<>>
    /\ output_dir = "missing"
    /\ roi_args = ScenarioArgs
    /\ roi_locals = <<>>
    /\ roi_returned = <<>>
    /\ roi_raised = "none"
    /\ opp = <<>>
    /\ opp_args = <<>>
    /\ opp_record = <<>>
    /\ calls = <<>>
    /\ pc = <<>>
    /\ frames = <<>>
    /\ results = <<>>

\* the page is opened or a widget outside the form changes: a script run
\* with no button clicked
PageRerun ==
    /\ script = "idle"
    /\ script' = "init"
    /\ event' = NoEvent
    /\ UNCHANGED <<session, opportunities, audit_args, roi_data>>
    /\ UNCHANGED notAppVars

\* the user clicks "Load Example (Aged Care)"
ClickLoadExample ==
    /\ script = "idle"
    /\ session # <<>>
    /\ script' = "init"
    /\ event' = [NoEvent EXCEPT !.load_example = TRUE]
    /\ UNCHANGED <<session, opportunities, audit_args, roi_data>>
    /\ UNCHANGED notAppVars

\* the user submits the add form
SubmitAdd ==
    /\ script = "idle"
    /\ session # <<>>
    /\ Len(session[1]) < MaxSessionOpps
    /\ \E values \in FormValues :
           event' = [NoEvent EXCEPT !.submitted = TRUE, !.form = <<values>>]
    /\ script' = "init"
    /\ UNCHANGED <<session, opportunities, audit_args, roi_data>>
    /\ UNCHANGED notAppVars

\* if "opportunities" not in st.session_state: ...
\* if load_example or (not st.session_state.opportunities): ...
InitSession ==
    /\ script = "init"
    /\ session' = SessionAfterInit(session, event.load_example)
    /\ script' = "build"
    /\ UNCHANGED <<event, opportunities, audit_args, roi_data>>
    /\ UNCHANGED notAppVars

\* opportunities = [Opportunity(...) for o in st.session_state.opportunities]
\* roi_data = calculate_audit_roi(opportunities, avg_salary, implementation_cost)
BuildAndCalculate ==
    /\ script = "build"
    /\ LET built == [i \in 1..Len(session[1]) |->
                        OpportunityOfRecord(session[1][i])]
       IN  /\ opportunities' = built
           /\ audit_args' =
                  <<[avg_salary |-> Num(AppSalary),
                     implementation_cost |-> Num(AppImplementationCost)]>>
           /\ roi_data' = <<calculate_audit_roi(built, Num(AppSalary),
                                                Num(AppImplementationCost))>>
    /\ script' = "form"
    /\ UNCHANGED <<session, event>>
    /\ UNCHANGED notAppVars

\* if st.form_submit_button("Add") and nn: append the record; st.rerun()
AddForm ==
    /\ script = "form"
    /\ IF event.submitted /\ event.form[1].name # ""
       THEN /\ session' = <<Append(session[1], event.form[1])>>
            /\ script' = "init"
            /\ event' = NoEvent
       ELSE /\ script' = "idle"
            /\ UNCHANGED <<session, event>>
    /\ UNCHANGED <<opportunities, audit_args, roi_data>>
    /\ UNCHANGED notAppVars

NextApp ==
    \/ PageRerun
    \/ ClickLoadExample
    \/ SubmitAdd
    \/ InitSession
    \/ BuildAndCalculate
    \/ AddForm

SpecApp == InitApp /\ [][NextApp]_vars

-----------------------------------------------------------------------------
(* Properties of the web app, checked under SpecApp                         *)

\* C25: when the project is built and calculate_audit_roi is called the
\* session list is not empty; the initialisation replaces a missing or
\* empty list, and on "Load Example" any list, by exactly the 7 example
\* records; an "Add" with a name appends exactly that record at the end,
\* and one with an empty name changes nothing.
C25_SessionListNeverEmpty ==
    /\ [](script \in {"build", "form"} =>
             (session # <<>> /\ Len(session[1]) >= 1))
    /\ [](roi_data # <<>> => Len(opportunities) >= 1)
    /\ [][/\ InitSession =>
                IF session = <<>> \/ session[1] = <<>> \/ event.load_example
                THEN /\ session' = <<ExampleRecords>>
                     /\ Len(session'[1]) = 7
                ELSE session' = session
          /\ AddForm =>
                IF event.submitted /\ event.form[1].name # ""
                THEN /\ Len(session'[1]) = Len(session[1]) + 1
                     /\ SubSeq(session'[1], 1, Len(session[1])) = session[1]
                     /\ session'[1][Len(session'[1])] = event.form[1]
                ELSE session' = session]_vars

\* an added record sits behind the seven example records
C25_Witness ==
    /\ script = "form"
    /\ session # <<>>
    /\ Len(session[1]) = 8
    /\ SubSeq(session[1], 1, 7) = ExampleRecords
    /\ session[1][8].name = "Shift handover notes"
    /\ Len(opportunities) = 8
    /\ opportunities[8].category = "quick_win"
    /\ roi_data # <<>>

-----------------------------------------------------------------------------
(* The command line (main).  A run of main is started with a set of flags   *)
(* and executes the operations of one mode; 'trace' records them in order.  *)
(* Writing into an output directory that does not exist raises              *)
(* FileNotFoundError: only the example mode and save_project create it.     *)

\* the implementation cost main passes in example mode
ExampleImplementationCost == 25000

FlagSets ==
    [example : BOOLEAN, new_audit : BOOLEAN, project : BOOLEAN,
     questions : BOOLEAN, roi : BOOLEAN, report : BOOLEAN]

\* an executed operation; implementation_cost is the cost passed to
\* calculate_audit_roi and 0 for every other operation
Op(name) == [op |-> name, implementation_cost |-> 0]

RoiOp(cost) == [op |-> "calculate_audit_roi", implementation_cost |-> cost]

\* the operations that write into the output directory
WritingOps ==
    {"write_questions", "write_matrix", "write_report", "write_pptx",
     "save_project"}

\* mutant: --new-audit is tested before --example
Mode_newAuditFirst(f) ==
    IF f.new_audit THEN "new_audit"
    ELSE IF f.example THEN "example"
    ELSE IF f.project THEN "project"
    ELSE "usage"

\* the branch of main taken: if args.example / if args.new_audit /
\* if args.project / else
Mode(f) ==
    IF f.example THEN "example"
    ELSE IF f.new_audit THEN "new_audit"
    ELSE IF f.project THEN "project"
    ELSE "usage"

InitCli ==
    /\ flags \in FlagSets
    /\ output_dir \in {"missing", "exists"}
    /\ main_pc = "start"
    /\ trace = <<>>
    /\ session = <<>>
    /\ script = "idle"
    /\ event = <<>>
    /\ opportunities = <<>>
    /\ audit_args = <<>>
    /\ roi_data = <<>>
    /\ project = <<>>
    /\ report = <<>>
    /\ file = <<>>
    /\ loaded = <<>>
    /\ roi_args = ScenarioArgs
    /\ roi_locals = <<>>
    /\ roi_returned = <<>>
    /\ roi_raised = "none"
    /\ opp = <<>>
    /\ opp_args = <<>>
    /\ opp_record = <<>>
    /\ calls = <<>>
    /\ pc = <<>>
    /\ frames = <<>>
    /\ results = <<>>

\* if args.example: build the example project, output_dir.mkdir(...), write
\* every deliverable, save the project, return
ExampleMode ==
    /\ main_pc = "start"
    /\ Mode(flags) = "example"
    /\ trace' = <<Op("mkdir"), Op("write_questions"), Op("write_matrix"),
                  RoiOp(ExampleImplementationCost), Op("write_report"),
                  Op("write_pptx"), Op("save_project")>>
    /\ output_dir' = "exists"
    /\ main_pc' = "returned"
    /\ UNCHANGED flags
    /\ UNCHANGED notCliVars

\* if args.new_audit: the wizard, save_project (which creates the output
\* directory), return
NewAuditMode ==
    /\ main_pc = "start"
    /\ Mode(flags) = "new_audit"
    /\ trace' = <<Op("interactive_new_audit"), Op("save_project")>>
    /\ output_dir' = "exists"
    /\ main_pc' = "returned"
    /\ UNCHANGED flags
    /\ UNCHANGED notCliVars

\* else: print the usage hint, return
Usage ==
    /\ main_pc = "start"
    /\ Mode(flags) = "usage"
    /\ main_pc' = "returned"
    /\ UNCHANGED <<flags, trace, output_dir>>
    /\ UNCHANGED notCliVars

\* if args.project: project = load_project(Path(args.project))
LoadMode ==
    /\ main_pc = "start"
    /\ Mode(flags) = "project"
    /\ trace' = <<Op("load_project")>>
    /\ main_pc' = "questions"
    /\ UNCHANGED <<flags, output_dir>>
    /\ UNCHANGED notCliVars

\* if args.questions: generate the document and write it
QuestionsStep ==
    /\ main_pc = "questions"
    /\ IF ~flags.questions
       THEN /\ main_pc' = "roi"
            /\ UNCHANGED trace
       ELSE IF output_dir = "exists"
       THEN /\ main_pc' = "roi"
            /\ trace' = Append(trace, Op("write_questions"))
       ELSE /\ main_pc' = "raised"
            /\ UNCHANGED trace
    /\ UNCHANGED <<flags, output_dir>>
    /\ UNCHANGED notCliVars

\* if args.roi: roi_data = calculate_audit_roi(..., 15000); print it
RoiStep ==
    /\ main_pc = "roi"
    /\ main_pc' = "report"
    /\ trace' = IF flags.roi
                THEN Append(trace, RoiOp(ProjectImplementationCost))
                ELSE trace
    /\ UNCHANGED <<flags, output_dir>>
    /\ UNCHANGED notCliVars

\* if args.report: roi_data = calculate_audit_roi(..., 15000); write the
\* report and the presentation
ReportStep ==
    /\ main_pc = "report"
    /\ IF ~flags.report
       THEN /\ main_pc' = "returned"
            /\ UNCHANGED trace
       ELSE IF output_dir = "exists"
       THEN /\ main_pc' = "returned"
            /\ trace' = trace \o <<RoiOp(ProjectImplementationCost),
                                   Op("write_report"), Op("write_pptx")>>
       ELSE /\ main_pc' = "raised"
            /\ trace' = Append(trace, RoiOp(ProjectImplementationCost))
    /\ UNCHANGED <<flags, output_dir>>
    /\ UNCHANGED notCliVars

NextCli ==
    \/ ExampleMode
    \/ NewAuditMode
    \/ Usage
    \/ LoadMode
    \/ QuestionsStep
    \/ RoiStep
    \/ ReportStep

SpecCli == InitCli /\ [][NextCli]_vars

-----------------------------------------------------------------------------
(* Properties of main, checked under SpecCli                                *)

Names(t) == [i \in 1..Len(t) |-> t[i].op]

====
